---- MODULE Spec2Model ----
(***************************************************************************)
(* pygmail.mailbox: the Mailbox command pipeline.                          *)
(*                                                                         *)
(* Every public Mailbox operation is a chain of continuations over one     *)
(* shared IMAP connection.  A call is modelled by the stack of the         *)
(* continuations that wait for a nested operation's result (`stack`), the  *)
(* response handler that waits for the command on the wire (`pending`) and *)
(* the commands it has issued so far (`log`).  An action is one response   *)
(* handler, run to the point where it either issues the next command,      *)
(* schedules a timer or hands a value to the caller's continuation.        *)
(*                                                                         *)
(* The handlers are written as operators from a state record `s` to the    *)
(* state record after the handler, so that nested calls (search -> select  *)
(* -> count -> ...) compose as they do in the code.                        *)
(***************************************************************************)
EXTENDS Naturals, Integers, Sequences, FiniteSets, TLC

VARIABLES
    last_viewed_mailbox,  \* account.last_viewed_mailbox: the "active mailbox" memo
    selected,             \* the mailbox really selected on the IMAP connection
    connection,           \* what account.connection hands out: "ok" or "error"
    num_tries,            \* Mailbox.num_tries, per Mailbox object; Unset = no attribute
    call,                 \* the calls: one record per call slot
    prev,                 \* summary of the operation completed before the current one
    started,              \* number of operations started so far
    input,                \* the arguments of a call of one of the module's functions
    output                \* what that call returned

vars == <<last_viewed_mailbox, selected, connection, num_tries, call, prev, started,
          input, output>>

(***************************************************************************)
(* Bounds of the model.                                                    *)
(***************************************************************************)
MaxCalls == 2     \* operations started in one behaviour
MaxIds == 2       \* ids a SEARCH response can hold / ids passed by a caller
MaxUid == 1       \* distinct UIDs a UID SEARCH response can return
MaxLen == 3       \* length of a list handed to page_from_list
MaxGroups == 2    \* groups of parts a raw response handed to parse_fetch_request holds

(***************************************************************************)
(* Program constants.                                                      *)
(***************************************************************************)
MaxTries == 5     \* "if self.num_tries == 5"
NoLimit == -1     \* page_from_list: "limit is False"
NoneLimit == -2   \* messages, search: limit=None
Unset == -1       \* the attribute num_tries does not exist ("del self.num_tries")

Mailboxes == {"INBOX", "A"}     \* the Mailbox objects operations are called on
TrashFolders == {"Trash"}       \* values passed as trash_folder
NoMailbox == "None"
\* connection.select() without a mailbox argument selects the library's default
DefaultMailbox == "INBOX"
Calls == {1, 2}

(***************************************************************************)
(* Values handed to continuations.                                         *)
(***************************************************************************)
Val(k, n, m) == [kind |-> k, n |-> n, mode |-> m, items |-> << >>]
True == Val("True", 0, "")
False == Val("False", 0, "")
None == Val("None", 0, "")
StateError == Val("StateError", 0, "")        \* check_imap_state's error value
ResponseError == Val("ResponseError", 0, "")  \* check_imap_response's error value
NoResult == Val("NoResult", 0, "")
IsError(v) == v.kind \in {"StateError", "ResponseError"}

NoArgs == [limit |-> NoLimit, offset |-> 0, n |-> 0, gm_ids |-> FALSE,
           only_uids |-> FALSE, full |-> FALSE, teaser |-> FALSE]

IdleCall == [status |-> "idle", op |-> "", self |-> NoMailbox, trash_folder |-> NoMailbox,
             args |-> NoArgs, ids |-> << >>, uid |-> 0,
             stack |-> << >>, pending |-> "none", result |-> NoResult, delivered |-> 0,
             log |-> << >>, waits |-> 0, memo0 |-> NoMailbox]

\* no function of the module is being called / the call has not returned
NoInput == [fn |-> "none"]
NotReturned == [status |-> "none"]

NoPrev == [kind |-> "", self |-> NoMailbox, nsel |-> 0, sent |-> FALSE, ok |-> FALSE]

\* The state record the handlers work on.
S == [memo |-> last_viewed_mailbox, selected |-> selected, conn |-> connection,
      tries |-> num_tries, call |-> call]

Apply(t) ==
    /\ last_viewed_mailbox' = t.memo
    /\ selected' = t.selected
    /\ connection' = t.conn
    /\ num_tries' = t.tries
    /\ call' = t.call

(***************************************************************************)
(* pygmail.utilities / pygmail.errors: _cmd, _cmd_cb, _cmd_in and the      *)
(* check_imap_state / check_imap_response decorators, by their contract:   *)
(* an error is handed to the operation's callback as a value, and the      *)
(* decorated handler does not run.                                         *)
(***************************************************************************)
\* check_imap_state(callback): account.connection handed out an error instead of a
\* usable connection (not authenticated, connection dropped).
is_state_error(s) == s.conn # "ok"

\* check_imap_response(callback): the command ran and the server's status is not OK.
is_imap_error(r) == r.typ # "OK"

\* _cmd(callback, value): hand `value` to the continuation on top of the stack,
\* or to the caller when the stack is empty.
RECURSIVE _cmd(_, _, _)

Push(s, c, k) == [s EXCEPT !.call[c].stack = Append(@, k)]

\* connection.<command>(callback = handler, ...): the command goes on the wire.
Send(s, c, cmd, arg, n, target, handler) ==
    [s EXCEPT !.call[c].pending = handler,
              !.call[c].log = Append(@, [cmd |-> cmd, arg |-> arg, n |-> n,
                                         target |-> target, sel |-> s.selected,
                                         status |-> "sent", data |-> 0, text |-> ""])]

\* The server's answer to the command on the wire reaches the client.  A SELECT
\* that succeeds selects its mailbox; one that fails leaves none selected.
Receive(s, c, r) ==
    LET i == Len(s.call[c].log)
        e == s.call[c].log[i]
        sel == IF e.cmd # "SELECT" THEN s.selected
               ELSE IF r.typ = "OK" THEN e.arg ELSE NoMailbox
    IN  [s EXCEPT !.selected = sel,
                  !.call[c].pending = "none",
                  !.call[c].log[i].status = r.typ,
                  !.call[c].log[i].data = r.data,
                  !.call[c].log[i].text = r.text]

\* An exception leaves the handler: the chain stops, nothing is delivered.
Raise(s, c) == [s EXCEPT !.call[c].status = "raised", !.call[c].pending = "none"]

(***************************************************************************)
(* page_from_list                                                          *)
(***************************************************************************)
Slice(a_list, first, last) ==   \* a_list[first:last], 0-based, last exclusive
    IF last <= first THEN << >> ELSE SubSeq(a_list, first + 1, last)

\* page_from_list with the limit counted from the head of the list, not from offset
page_from_list_limit_from_head(a_list, limit, offset) ==
    LET count == Len(a_list)
    IN  IF count <= offset THEN << >>
        ELSE IF limit = NoLimit THEN Slice(a_list, offset, count)
        ELSE Slice(a_list, offset, IF limit >= count THEN count ELSE limit)

page_from_list(a_list, limit, offset) ==
    LET count == Len(a_list)
    IN  IF count <= offset THEN << >>
        ELSE IF limit = NoLimit THEN Slice(a_list, offset, count)
        ELSE LET last_req_item == offset + limit
                 last_elm_index == IF last_req_item >= count THEN count
                                   ELSE last_req_item
             IN  Slice(a_list, offset, last_elm_index)

\* "offset + limit" with limit None: TypeError
page_from_list_raises(a_list, limit, offset) ==
    Len(a_list) > offset /\ limit = NoneLimit

(***************************************************************************)
(* Strings and raw FETCH responses.                                        *)
(*                                                                         *)
(* A string is a sequence of symbols: a symbol is a character the code     *)
(* looks at (a digit, a blank, a parenthesis) or a piece of text it never  *)
(* looks into (a keyword of the protocol, a block of metadata, headers or  *)
(* body text).  A raw response is None or a list of parts; a part is a     *)
(* string or a tuple of strings (its sub-parts).                           *)
(***************************************************************************)
Digits == {"0", "1", "2", "3", "4", "5", "6", "7", "8", "9"}

\* needle in haystack
Contains(haystack, needle) ==
    \E k \in 0..(Len(haystack) - Len(needle)) :
        \A x \in 1..Len(needle) : haystack[k + x] = needle[x]

\* the longest run of digits of str that starts at position first (\d+ is greedy)
DigitRun(str, first) ==
    LET stops == {k \in first..Len(str) : str[k] \notin Digits}
        stop == IF stops = {} THEN Len(str) + 1
                ELSE CHOOSE k \in stops : \A m \in stops : k <= m
    IN  SubSeq(str, first, stop - 1)

\* str starts, at position first, with the symbols of prefix
StartsWith(str, first, prefix) ==
    /\ Len(str) >= first + Len(prefix) - 1
    /\ \A x \in 1..Len(prefix) : str[first + x - 1] = prefix[x]

StrPart(text) == [str |-> TRUE, text |-> text, subs |-> << >>]
TuplePart(subs) == [str |-> FALSE, text |-> << >>, subs |-> subs]
NoResponse == [none |-> TRUE, parts |-> << >>]        \* None
Response(parts) == [none |-> FALSE, parts |-> parts]

\* len(part), part[k] (k counted from 0); part[k] of a string is its k-th character
PartLen(part) == IF part.str THEN Len(part.text) ELSE Len(part.subs)
PartAt(part, k) == IF part.str THEN <<part.text[k + 1]>> ELSE part.subs[k + 1]

\* the markers the teaser branch looks for
HeaderMarker == <<"BODY[HEADER]">>           \* 'BODY[HEADER]'
BodyMarker == <<"BODY[1]">>                  \* 'BODY[1]'
NilMarker == <<"BODY[1]", " ", "NIL", ")">>  \* 'BODY[1] NIL)'

\* GM_ID_EXTRACTOR.match(part): \d+ \(X-GM-MSGID (\d+)\) at the start of part;
\* the result is group(1), or no match
NoMatch == [matched |-> FALSE, group |-> << >>]
GM_ID_EXTRACTOR(str) ==
    LET seq_no == DigitRun(str, 1)
        a == Len(seq_no) + 1
        opening == <<" ", "(", "X-GM-MSGID", " ">>
        b == a + Len(opening)
        gm_id == DigitRun(str, b)
        e == b + Len(gm_id)
    IN  IF /\ Len(seq_no) > 0
           /\ StartsWith(str, a, opening)
           /\ Len(gm_id) > 0
           /\ StartsWith(str, e, <<")">>)
        THEN [matched |-> TRUE, group |-> gm_id]
        ELSE NoMatch

(***************************************************************************)
(* The branch of parse_fetch_request a response is decoded by, and the     *)
(* data-item template an operation requests.                               *)
(***************************************************************************)
parse_branch(teaser, full, gm_id) ==
    IF gm_id THEN "gm_id"
    ELSE IF teaser THEN "teaser"
    ELSE IF full THEN "body"
    ELSE "header"

(***************************************************************************)
(* parse_fetch_request, one loop iteration at a time.  `d` holds the local *)
(* variables of a call and the place it has reached: "enter", "part" (the  *)
(* head of the loop over the parts), "sub_part" (the head of the teaser    *)
(* branch's loop over the sub-parts of part i), "part_end" (the teaser     *)
(* branch's test of message_complete), "return" or "raised".               *)
(***************************************************************************)
NewParse ==
    [pc |-> "enter", i |-> 1, j |-> 1, messages |-> << >>,
     message_complete |-> FALSE, end_metadata |-> FALSE, end_header |-> FALSE,
     metadata_section |-> << >>, header_section |-> << >>, body_section |-> << >>,
     message_parts |-> << >>, error |-> ""]

MessageTeaser(metadata, headers, body) ==
    [type |-> "MessageTeaser", metadata |-> metadata, headers |-> headers, body |-> body]
Message(metadata, headers, body) ==
    [type |-> "Message", metadata |-> metadata, headers |-> headers, body |-> body]
MessageHeaders(metadata, headers) ==
    [type |-> "MessageHeaders", metadata |-> metadata, headers |-> headers]

ParseRaise(d, error) == [d EXCEPT !.pc = "raised", !.error = error]

\* parse_fetch_request without the test for an empty response
parse_enter_unguarded(d, response) ==
    IF response.none THEN ParseRaise(d, "TypeError")    \* "for part in None"
    ELSE [d EXCEPT !.pc = "part"]

\* "if not response or not response[0]: return messages"
parse_enter(d, response) ==
    IF \/ response.none
       \/ response.parts = << >>
       \/ PartLen(response.parts[1]) = 0
    THEN [d EXCEPT !.pc = "return"]
    ELSE [d EXCEPT !.pc = "part"]

\* the loop over the parts is exhausted: "return messages"
parse_done(d) == [d EXCEPT !.pc = "return"]

\* gm_id branch: one part
gm_id_part(d, part) ==
    IF ~part.str THEN ParseRaise(d, "TypeError")    \* match() of something not a string
    ELSE LET gm_id_match == GM_ID_EXTRACTOR(part.text)
         IN  IF gm_id_match.matched
             THEN [d EXCEPT !.messages = Append(@, gm_id_match.group), !.i = @ + 1]
             ELSE [d EXCEPT !.i = @ + 1]

\* teaser branch: "if isinstance(part, basestring) ... else: for sub_part in part"
teaser_part(d, part) ==
    IF part.str THEN [d EXCEPT !.message_complete = TRUE, !.pc = "part_end"]
    ELSE IF part.subs = << >> THEN [d EXCEPT !.pc = "part_end"]
    ELSE [d EXCEPT !.pc = "sub_part", !.j = 1]

\* teaser branch: one sub-part of a nested part
teaser_sub_part(d, part) ==
    LET sub_part == part.subs[d.j]
        e == IF ~d.end_metadata
             THEN [d EXCEPT !.metadata_section = @ \o sub_part,
                            !.end_metadata = Contains(sub_part, HeaderMarker)]
             ELSE IF ~d.end_header
             THEN LET f == IF Contains(sub_part, BodyMarker)
                           THEN [d EXCEPT !.end_header = TRUE]
                           ELSE [d EXCEPT !.header_section = @ \o sub_part]
                  IN  IF Contains(sub_part, NilMarker)
                      THEN [f EXCEPT !.message_complete = TRUE]
                      ELSE f
             ELSE [d EXCEPT !.body_section = @ \o sub_part]
    IN  IF d.j = Len(part.subs) THEN [e EXCEPT !.pc = "part_end"]
        ELSE [e EXCEPT !.j = @ + 1]

\* the teaser branch emitting a record without clearing the buffers and flags
teaser_part_end_without_reset(d) ==
    IF d.message_complete
    THEN [d EXCEPT !.messages = Append(@, MessageTeaser(d.metadata_section,
                                                        d.header_section,
                                                        d.body_section)),
                   !.message_complete = FALSE,
                   !.pc = "part", !.i = @ + 1]
    ELSE [d EXCEPT !.pc = "part", !.i = @ + 1]

\* teaser branch: "if message_complete: messages.append(...)" and the resets
teaser_part_end(d) ==
    IF d.message_complete
    THEN [d EXCEPT !.messages = Append(@, MessageTeaser(d.metadata_section,
                                                        d.header_section,
                                                        d.body_section)),
                   !.message_complete = FALSE,
                   !.end_metadata = FALSE, !.end_header = FALSE,
                   !.metadata_section = << >>, !.header_section = << >>,
                   !.body_section = << >>,
                   !.pc = "part", !.i = @ + 1]
    ELSE [d EXCEPT !.pc = "part", !.i = @ + 1]

\* the full branch with the headers taken from the metadata element
full_part_headers_from_metadata(d, part) ==
    IF Len(d.message_parts) = 0
    THEN IF PartLen(part) < 2 THEN ParseRaise(d, "IndexError")
         ELSE [d EXCEPT !.message_parts = <<PartAt(part, 0), PartAt(part, 0),
                                            PartAt(part, 1)>>,
                        !.i = @ + 1]
    ELSE [d EXCEPT !.messages = Append(@, Message(d.message_parts[1], d.message_parts[2],
                                                  d.message_parts[3])),
                   !.message_parts = << >>, !.i = @ + 1]

\* full branch: one part
full_part(d, part) ==
    IF Len(d.message_parts) = 0
    THEN IF PartLen(part) < 2 THEN ParseRaise(d, "IndexError")    \* part[0], part[1]
         ELSE [d EXCEPT !.message_parts = <<PartAt(part, 0), PartAt(part, 1),
                                            PartAt(part, 1)>>,
                        !.i = @ + 1]
    ELSE IF Len(d.message_parts) = 3
    THEN [d EXCEPT !.messages = Append(@, Message(d.message_parts[1], d.message_parts[2],
                                                  d.message_parts[3])),
                   !.message_parts = << >>, !.i = @ + 1]
    ELSE [d EXCEPT !.i = @ + 1]

\* the headers branch completing a message with its first part already
headers_part_without_terminator(d, part) ==
    IF PartLen(part) < 2 THEN ParseRaise(d, "IndexError")
    ELSE [d EXCEPT !.messages = Append(@, MessageHeaders(PartAt(part, 0), PartAt(part, 1))),
                   !.i = @ + 1]

\* headers branch: one part
headers_part(d, part) ==
    IF Len(d.message_parts) = 0
    THEN IF PartLen(part) < 2 THEN ParseRaise(d, "IndexError")    \* part[0], part[1]
         ELSE [d EXCEPT !.message_parts = <<PartAt(part, 0), PartAt(part, 1)>>,
                        !.i = @ + 1]
    ELSE IF Len(d.message_parts) = 2
    THEN [d EXCEPT !.messages = Append(@, MessageHeaders(d.message_parts[1],
                                                         d.message_parts[2])),
                   !.message_parts = << >>, !.i = @ + 1]
    ELSE [d EXCEPT !.i = @ + 1]

\* one step of a call that has neither returned nor raised
parse_step(d, response, teaser, full, gm_id) ==
    LET branch == parse_branch(teaser, full, gm_id)
        part == response.parts[d.i]
    IN  CASE d.pc = "enter" -> parse_enter(d, response)
          [] d.pc = "part" /\ d.i > Len(response.parts) -> parse_done(d)
          [] d.pc = "part" /\ d.i <= Len(response.parts) /\ branch = "gm_id" ->
                gm_id_part(d, part)
          [] d.pc = "part" /\ d.i <= Len(response.parts) /\ branch = "teaser" ->
                teaser_part(d, part)
          [] d.pc = "part" /\ d.i <= Len(response.parts) /\ branch = "body" ->
                full_part(d, part)
          [] d.pc = "part" /\ d.i <= Len(response.parts) /\ branch = "header" ->
                headers_part(d, part)
          [] d.pc = "sub_part" -> teaser_sub_part(d, part)
          [] d.pc = "part_end" -> teaser_part_end(d)

\* the whole call: the state in which it returns or raises
RECURSIVE parse_run(_, _, _, _, _)
parse_run(d, response, teaser, full, gm_id) ==
    IF d.pc \in {"return", "raised"} THEN d
    ELSE parse_run(parse_step(d, response, teaser, full, gm_id),
                   response, teaser, full, gm_id)

parse_fetch_request(response, teaser, full, gm_id) ==
    parse_run(NewParse, response, teaser, full, gm_id)

\* a list handed to a continuation: its elements, and the path that produced them
ListOf(items, mode) ==
    [kind |-> "List", n |-> Len(items), mode |-> mode, items |-> items]

(***************************************************************************)
(* messages_by_id, only_uids: the UID is taken from its place in the line. *)
(***************************************************************************)
\* string.split(str, sep): the fields between the separators, empty ones too
RECURSIVE Split(_, _)
Split(str, sep) ==
    LET at == {k \in 1..Len(str) : str[k] = sep}
    IN  IF at = {} THEN <<str>>
        ELSE LET first == CHOOSE k \in at : \A m \in at : k <= m
             IN  <<SubSeq(str, 1, first - 1)>>
                     \o Split(SubSeq(str, first + 1, Len(str)), sep)

\* [string.split(elm, " ")[4][:-1] for elm in data]
uids_of(data) ==
    IF \E k \in 1..Len(data.parts) :
           ~data.parts[k].str \/ Len(Split(data.parts[k].text, " ")) < 5
    THEN [raised |-> TRUE, uids |-> << >>]     \* AttributeError, IndexError
    ELSE [raised |-> FALSE,
          uids |-> [k \in 1..Len(data.parts) |->
                       LET field == Split(data.parts[k].text, " ")[5]
                       IN  SubSeq(field, 1, Len(field) - 1)]]

(***************************************************************************)
(* The text of a response: the lines and literals the server sends for the *)
(* message numbered m under each template of imap_queries.                 *)
(***************************************************************************)
MetaHeader(m) == <<m, " ", "(", "metadata", m, " ", "BODY[HEADER]", " ", "{n}">>
HeaderBlock(m) == <<"headers", m>>
MetaFull(m) == <<m, " ", "(", "metadata", m, " ", "BODY[]", " ", "{n}">>
FullText(m) == <<"headers", m, "text", m>>
BodyLead == <<" ", "BODY[1]", " ", "{n}">>
BodyText(m) == <<"text", m>>
NilLine == <<" ", "BODY[1]", " ", "NIL", ")">>
Close == <<")">>
GmLine(seq_no, gm_id) == seq_no \o <<" ", "(", "X-GM-MSGID", " ">> \o gm_id \o <<")">>

HeaderTuple(m) == TuplePart(<<MetaHeader(m), HeaderBlock(m)>>)

(***************************************************************************)
(* What the server sends back for a FETCH of one of the templates of       *)
(* imap_queries that found n messages, as the IMAP library hands it on.    *)
(***************************************************************************)
Digit(k) == ToString(k)
GmIdOfMessage(k) == <<"7", Digit(k)>>
UidOfMessage(k) == <<"4", Digit(k)>>

UidLine(k) ==
    <<Digit(k), " ", "(", "X-GM-MSGID", " ">> \o GmIdOfMessage(k)
        \o <<" ", "UID", " ">> \o UidOfMessage(k) \o <<")">>

ServerGroup(template, k) ==
    CASE template = "gm_id" -> <<StrPart(GmLine(<<Digit(k)>>, GmIdOfMessage(k)))>>
      [] template = "uid" -> <<StrPart(UidLine(k))>>
      [] template = "body" ->
            <<TuplePart(<<MetaFull(Digit(k)), FullText(Digit(k))>>), StrPart(Close)>>
      [] template = "teaser" ->
            <<HeaderTuple(Digit(k)), TuplePart(<<BodyLead, BodyText(Digit(k))>>),
              StrPart(Close)>>
      [] template = "header" -> <<HeaderTuple(Digit(k)), StrPart(Close)>>

RECURSIVE ServerParts(_, _)
ServerParts(template, n) ==
    IF n = 0 THEN << >>
    ELSE ServerParts(template, n - 1) \o ServerGroup(template, n)

ServerData(template, n) == Response(ServerParts(template, n))

\* extract_data(imap_response) of the answer to the command a call sent last
extract_data(s, c, r) ==
    ServerData(s.call[c].log[Len(s.call[c].log)].arg, r.data)

fetch_request(a) ==      \* fetch._on_connection, fetch_all._on_connection
    IF a.gm_ids THEN "gm_id"
    ELSE IF a.full THEN "body"
    ELSE IF a.teaser THEN "teaser"
    ELSE "header"

messages_by_id_request(a) ==
    IF a.gm_ids THEN "gm_id"
    ELSE IF a.only_uids THEN "uid"
    ELSE IF a.full THEN "body"
    ELSE IF a.teaser THEN "teaser"
    ELSE "header"

(***************************************************************************)
(* Mailbox.count                                                           *)
(***************************************************************************)
count_on_select_complete(s, c, r) ==
    IF is_imap_error(r) THEN _cmd(s, c, ResponseError)
    ELSE _cmd([s EXCEPT !.memo = s.call[c].self], c, Val("Count", r.data, ""))

count_on_connection(s, c) ==
    IF is_state_error(s) THEN _cmd(s, c, StateError)
    ELSE Send(s, c, "SELECT", s.call[c].self, 0, s.call[c].self,
              "count._on_select_complete")

count(s, c) == count_on_connection(s, c)

(***************************************************************************)
(* Mailbox.select                                                          *)
(***************************************************************************)
select_on_count_complete(s, c, num) ==
    _cmd([s EXCEPT !.memo = s.call[c].self], c, True)

\* select without the memo: every call goes to the server
select_without_memo(s, c) ==
    count(Push(s, c, "select._on_count_complete"), c)

select(s, c) ==
    IF s.call[c].self = s.memo THEN _cmd(s, c, False)
    ELSE count(Push(s, c, "select._on_count_complete"), c)

(***************************************************************************)
(* Mailbox.delete_message                                                  *)
(***************************************************************************)
delete_message_on_original_mailbox_reselected(s, c, r) ==
    IF is_imap_error(r) THEN _cmd(s, c, ResponseError)
    ELSE _cmd(s, c, True)

\* connection.select is called without a mailbox argument
delete_message_on_recevieved_connection_7(s, c) ==
    IF is_state_error(s) THEN _cmd(s, c, StateError)
    ELSE Send(s, c, "SELECT", DefaultMailbox, 0, s.call[c].self,
              "delete_message._on_original_mailbox_reselected")

delete_message_on_expunge_complete(s, c, r) ==
    IF is_imap_error(r) THEN _cmd(s, c, ResponseError)
    ELSE delete_message_on_recevieved_connection_7(s, c)

delete_message_on_recevieved_connection_6(s, c) ==
    IF is_state_error(s) THEN _cmd(s, c, StateError)
    ELSE Send(s, c, "EXPUNGE", "", 0, s.call[c].trash_folder,
              "delete_message._on_expunge_complete")

delete_message_on_delete_complete(s, c, r) ==
    IF is_imap_error(r) THEN _cmd(s, c, ResponseError)
    ELSE delete_message_on_recevieved_connection_6(s, c)

\* "del self.num_tries" raises AttributeError when the attribute is gone
delete_message_on_received_connection_4(s, c, deleted_uid) ==
    IF is_state_error(s) THEN _cmd(s, c, StateError)
    ELSE IF s.tries[s.call[c].self] = Unset THEN Raise(s, c)
    ELSE Send([s EXCEPT !.tries[s.call[c].self] = Unset], c,
              "UID STORE", "\\Deleted", deleted_uid, s.call[c].trash_folder,
              "delete_message._on_delete_complete")

\* _cmd_in(_on_trash_selected, 2, ...): the chain sleeps until the timer fires
delete_message_wait(s, c) ==
    [s EXCEPT !.call[c].pending = "wait", !.call[c].waits = @ + 1]

\* the retry loop giving up one attempt early
delete_message_on_search_gives_up_early(s, c, r) ==
    IF is_imap_error(r) THEN _cmd(s, c, ResponseError)
    ELSE IF r.data # 0 THEN delete_message_on_received_connection_4(s, c, r.data)
    ELSE IF s.tries[s.call[c].self] = Unset THEN Raise(s, c)
    ELSE LET me == s.call[c].self
             n == s.tries[me] + 1
         IN  IF n = MaxTries - 1
             THEN _cmd([s EXCEPT !.tries[me] = Unset], c, False)
             ELSE delete_message_wait([s EXCEPT !.tries[me] = n], c)

\* r.data is the UID the search found, 0 when data[0] holds no UID (IndexError)
delete_message_on_search_for_message_complete(s, c, r) ==
    IF is_imap_error(r) THEN _cmd(s, c, ResponseError)
    ELSE IF r.data # 0 THEN delete_message_on_received_connection_4(s, c, r.data)
    ELSE IF s.tries[s.call[c].self] = Unset THEN Raise(s, c)
    ELSE LET me == s.call[c].self
             n == s.tries[me] + 1
         IN  IF n = MaxTries
             THEN _cmd([s EXCEPT !.tries[me] = Unset], c, False)
             ELSE delete_message_wait([s EXCEPT !.tries[me] = n], c)

delete_message_on_received_connection_3(s, c) ==
    IF is_state_error(s) THEN _cmd(s, c, StateError)
    ELSE Send(s, c, "UID SEARCH", "rfc822msgid", 0, s.call[c].trash_folder,
              "delete_message._on_search_for_message_complete")

delete_message_on_trash_selected(s, c, r) ==
    IF is_imap_error(r) THEN _cmd(s, c, ResponseError)
    ELSE delete_message_on_received_connection_3(s, c)

\* connection.select is called without a mailbox argument
delete_message_on_received_connection_2(s, c) ==
    IF is_state_error(s) THEN _cmd(s, c, StateError)
    ELSE Send([s EXCEPT !.tries[s.call[c].self] = 0], c,
              "SELECT", DefaultMailbox, 0, s.call[c].trash_folder,
              "delete_message._on_trash_selected")

delete_message_on_message_moved(s, c, r) ==
    IF is_imap_error(r) THEN _cmd(s, c, ResponseError)
    ELSE delete_message_on_received_connection_2(s, c)

delete_message_on_connection(s, c) ==
    IF is_state_error(s) THEN _cmd(s, c, StateError)
    ELSE Send(s, c, "UID COPY", s.call[c].trash_folder, s.call[c].uid,
              s.call[c].self, "delete_message._on_message_moved")

delete_message_on_select(s, c, was_selected) ==
    IF IsError(was_selected) THEN _cmd(s, c, was_selected)
    ELSE delete_message_on_connection(s, c)

delete_message(s, c) == select(Push(s, c, "delete_message._on_select"), c)

(***************************************************************************)
(* Mailbox.delete                                                          *)
(***************************************************************************)
\* success judged by the protocol status instead of the marker
delete_on_mailbox_deletion_by_status(s, c, r) ==
    LET was_success == (r.typ = "OK")
    IN  _cmd(s, c, IF was_success THEN True ELSE False)

\* check_imap_response(callback, require_ok=False): a non-OK status passes
delete_on_mailbox_deletion(s, c, r) ==
    LET was_success == (r.text = "Success")
    IN  _cmd(s, c, IF was_success THEN True ELSE False)

delete_on_connection(s, c) ==
    IF is_state_error(s) THEN _cmd(s, c, StateError)
    ELSE Send(s, c, "DELETE", s.call[c].self, 0, s.call[c].self,
              "delete._on_mailbox_deletion")

delete(s, c) == delete_on_connection(s, c)

(***************************************************************************)
(* Mailbox.messages_by_id                                                  *)
(***************************************************************************)
\* r.data is the number of response lines / message groups in the response
messages_by_id_on_fetch(s, c, r) ==
    IF is_imap_error(r) THEN _cmd(s, c, ResponseError)
    ELSE LET a == s.call[c].args
             data == extract_data(s, c, r)
             uids == uids_of(data)
             decoded == parse_fetch_request(data, a.teaser, a.full, a.gm_ids)
         IN  IF a.only_uids
             THEN IF uids.raised THEN Raise(s, c)
                  ELSE _cmd(s, c, ListOf(uids.uids, "uid"))
             ELSE IF decoded.pc = "raised" THEN Raise(s, c)
             ELSE _cmd(s, c, ListOf(decoded.messages,
                                    parse_branch(a.teaser, a.full, a.gm_ids)))

messages_by_id_on_connection(s, c) ==
    IF is_state_error(s) THEN _cmd(s, c, StateError)
    ELSE Send(s, c, "FETCH", messages_by_id_request(s.call[c].args),
              Len(s.call[c].ids), s.call[c].self, "messages_by_id._on_fetch")

messages_by_id_on_select(s, c, result) ==
    IF IsError(result) THEN _cmd(s, c, result)
    ELSE messages_by_id_on_connection(s, c)

\* after the "len(ids) == 0" shortcut the operation goes through self.select,
\* as every other operation with an _on_select handler does
messages_by_id(s, c, ids) ==
    IF Len(ids) = 0 THEN _cmd(s, c, Val("List", 0, ""))
    ELSE select(Push([s EXCEPT !.call[c].ids = ids], c, "messages_by_id._on_select"), c)

(***************************************************************************)
(* Mailbox.search and Mailbox.messages                                     *)
(***************************************************************************)
\* string.split(data[0]): the ids of the response, here 1 .. r.data
SplitIds(r) == [i \in 1..r.data |-> i]

search_on_messages_by_id(s, c, messages) == _cmd(s, c, messages)

search_on_search(s, c, r) ==
    IF is_imap_error(r) THEN _cmd(s, c, ResponseError)
    ELSE LET ids == SplitIds(r)
             ids_to_fetch == page_from_list(ids, s.call[c].args.limit,
                                            s.call[c].args.offset)
         IN  IF page_from_list_raises(ids, s.call[c].args.limit, s.call[c].args.offset)
             THEN Raise(s, c)
             ELSE messages_by_id(Push(s, c, "search._on_messages_by_id"), c,
                                 ids_to_fetch)

search_on_connection(s, c) ==
    IF is_state_error(s) THEN _cmd(s, c, StateError)
    ELSE Send(s, c, "SEARCH", "X-GM-RAW", 0, s.call[c].self, "search._on_search")

search_on_mailbox_selected(s, c, was_changed) ==
    IF IsError(was_changed) THEN _cmd(s, c, was_changed)
    ELSE search_on_connection(s, c)

search(s, c) == select(Push(s, c, "search._on_mailbox_selected"), c)

messages_on_messages_by_id(s, c, messages) == _cmd(s, c, messages)

\* messages without paging: every id of the response is fetched
messages_on_search_unpaged(s, c, r) ==
    IF is_imap_error(r) THEN _cmd(s, c, ResponseError)
    ELSE messages_by_id(Push(s, c, "messages._on_messages_by_id"), c, SplitIds(r))

messages_on_search(s, c, r) ==
    IF is_imap_error(r) THEN _cmd(s, c, ResponseError)
    ELSE LET ids == SplitIds(r)
             ids_to_fetch == page_from_list(ids, s.call[c].args.limit,
                                            s.call[c].args.offset)
         IN  IF page_from_list_raises(ids, s.call[c].args.limit, s.call[c].args.offset)
             THEN Raise(s, c)
             ELSE messages_by_id(Push(s, c, "messages._on_messages_by_id"), c,
                                 ids_to_fetch)

messages_on_connection(s, c) ==
    IF is_state_error(s) THEN _cmd(s, c, StateError)
    ELSE Send(s, c, "SEARCH", "ALL", 0, s.call[c].self, "messages._on_search")

messages_on_select_complete(s, c, result) ==
    IF IsError(result) THEN _cmd(s, c, result)
    ELSE messages_on_connection(s, c)

messages(s, c) == select(Push(s, c, "messages._on_select_complete"), c)

(***************************************************************************)
(* Mailbox.fetch_all                                                       *)
(***************************************************************************)
fetch_all_on_fetch(s, c, r) ==
    IF is_imap_error(r) THEN _cmd(s, c, ResponseError)
    ELSE LET a == s.call[c].args
             data == extract_data(s, c, r)
             decoded == parse_fetch_request(data, a.teaser, a.full, a.gm_ids)
         IN  IF decoded.pc = "raised" THEN Raise(s, c)
             ELSE _cmd(s, c, ListOf(decoded.messages,
                                    parse_branch(a.teaser, a.full, a.gm_ids)))

fetch_all_on_connection(s, c) ==
    IF is_state_error(s) THEN _cmd(s, c, StateError)
    ELSE Send(s, c, "UID FETCH", fetch_request(s.call[c].args), s.call[c].args.n,
              s.call[c].self, "fetch_all._on_fetch")

\* not decorated: whatever select delivers, the chain goes on
fetch_all_on_select(s, c, result) == fetch_all_on_connection(s, c)

fetch_all(s, c) ==
    IF s.call[c].args.n > 0
    THEN select(Push(s, c, "fetch_all._on_select"), c)
    ELSE _cmd(s, c, None)

(***************************************************************************)
(* Mailbox.fetch                                                           *)
(***************************************************************************)
fetch_on_fetch(s, c, r) ==
    IF is_imap_error(r) THEN _cmd(s, c, ResponseError)
    ELSE LET a == s.call[c].args
             data == extract_data(s, c, r)
             decoded == parse_fetch_request(data, a.teaser, a.full, a.gm_ids)
         IN  IF decoded.pc = "raised" THEN Raise(s, c)
             ELSE IF Len(decoded.messages) > 0
             THEN _cmd(s, c, [kind |-> "Message", n |-> 1,
                              mode |-> parse_branch(a.teaser, a.full, a.gm_ids),
                              items |-> <<decoded.messages[1]>>])
             ELSE _cmd(s, c, None)

fetch_on_connection(s, c) ==
    IF is_state_error(s) THEN _cmd(s, c, StateError)
    ELSE Send(s, c, "UID FETCH", fetch_request(s.call[c].args), 1,
              s.call[c].self, "fetch._on_fetch")

fetch_on_select(s, c, result) ==
    IF IsError(result) THEN _cmd(s, c, result)
    ELSE fetch_on_connection(s, c)

fetch(s, c, uid) ==
    select(Push([s EXCEPT !.call[c].uid = uid], c, "fetch._on_select"), c)

(***************************************************************************)
(* Mailbox.fetch_gm_id                                                     *)
(***************************************************************************)
fetch_gm_id_on_fetch(s, c, message) == _cmd(s, c, message)

\* fetch_gm_id without the "no UID" test: an empty search result is fetched too
fetch_gm_id_on_search_always_fetches(s, c, r) ==
    IF is_imap_error(r) THEN _cmd(s, c, ResponseError)
    ELSE fetch(Push(s, c, "fetch_gm_id._on_fetch"), c, r.data)

\* r.data is the UID in data[0], 0 when the search found none
fetch_gm_id_on_search_complete(s, c, r) ==
    IF is_imap_error(r) THEN _cmd(s, c, ResponseError)
    ELSE IF r.data = 0 THEN _cmd(s, c, None)
    ELSE fetch(Push(s, c, "fetch_gm_id._on_fetch"), c, r.data)

fetch_gm_id_on_connection(s, c) ==
    IF is_state_error(s) THEN _cmd(s, c, StateError)
    ELSE Send(s, c, "UID SEARCH", "X-GM-MSGID", 0, s.call[c].self,
              "fetch_gm_id._on_search_complete")

fetch_gm_id_on_select(s, c, result) ==
    IF IsError(result) THEN _cmd(s, c, result)
    ELSE fetch_gm_id_on_connection(s, c)

fetch_gm_id(s, c) == select(Push(s, c, "fetch_gm_id._on_select"), c)

(***************************************************************************)
(* _cmd: the value reaches the continuation it was promised to.            *)
(***************************************************************************)
Callback(s, c, value) ==    \* the caller's own continuation
    [s EXCEPT !.call[c].status = "done",
              !.call[c].pending = "none",
              !.call[c].result = value,
              !.call[c].delivered = @ + 1]

_cmd(s, c, value) ==
    IF s.call[c].stack = << >> THEN Callback(s, c, value)
    ELSE LET n == Len(s.call[c].stack)
             k == s.call[c].stack[n]
             t == [s EXCEPT !.call[c].stack = SubSeq(@, 1, n - 1)]
         IN  CASE k = "select._on_count_complete" -> select_on_count_complete(t, c, value)
               [] k = "delete_message._on_select" -> delete_message_on_select(t, c, value)
               [] k = "messages_by_id._on_select" -> messages_by_id_on_select(t, c, value)
               [] k = "search._on_mailbox_selected" -> search_on_mailbox_selected(t, c, value)
               [] k = "search._on_messages_by_id" -> search_on_messages_by_id(t, c, value)
               [] k = "messages._on_select_complete" -> messages_on_select_complete(t, c, value)
               [] k = "messages._on_messages_by_id" -> messages_on_messages_by_id(t, c, value)
               [] k = "fetch_all._on_select" -> fetch_all_on_select(t, c, value)
               [] k = "fetch._on_select" -> fetch_on_select(t, c, value)
               [] k = "fetch_gm_id._on_select" -> fetch_gm_id_on_select(t, c, value)
               [] k = "fetch_gm_id._on_fetch" -> fetch_gm_id_on_fetch(t, c, value)

(***************************************************************************)
(* The environment: what the server answers, what callers pass.            *)
(***************************************************************************)
Resp(D) == {r \in [typ : {"OK", "NO"}, data : D, text : {""}] :
                r.typ = "NO" => r.data = 0}
SelectResponses == Resp({0})             \* data: the message count token
SearchResponses == Resp(0..MaxIds)       \* data: how many ids the response lists
UidSearchResponses == Resp(0..MaxUid)    \* data: the UID found, 0 for none
FetchResponses == Resp({0, MaxIds})      \* data: how many messages came back
PlainResponses == Resp({0})
DeleteResponses == [typ : {"OK", "NO"}, data : {0}, text : {"Success", "Failure"}]

Limits == {NoLimit, 1}
Offsets == {0, MaxIds}
Flags(G, U, F, T) ==
    {a \in [limit : {NoLimit}, offset : {0}, n : {0}, gm_ids : G, only_uids : U,
            full : F, teaser : T] : TRUE}

\* the option sets operations are started with
PlainFlags == Flags({FALSE}, {FALSE}, {FALSE}, {FALSE})
UidFlags == Flags({FALSE}, BOOLEAN, {FALSE}, {FALSE})

Finished(c) == call[c].status \in {"idle", "done", "raised"}
OnWire(c) == call[c].status = "running" /\ call[c].pending \notin {"none", "wait"}
WireIdle == \A c \in Calls : ~OnWire(c)

NSelect(log) == Cardinality({i \in 1..Len(log) : log[i].cmd = "SELECT"})
NCmd(log, cmd) == Cardinality({i \in 1..Len(log) : log[i].cmd = cmd})

\* the operations that fetch or list messages through ensure-selected
Readers == {"search", "messages", "fetch", "fetch_all", "fetch_gm_id", "messages_by_id"}
Kind(op) == IF op \in Readers THEN "reader" ELSE op

\* What is remembered of an operation once the next one starts: whose it was, how
\* many SELECT commands it sent, whether it sent any command, and whether it
\* delivered a result that is no error.
Summary(k) == [kind |-> Kind(k.op), self |-> k.self, nsel |-> NSelect(k.log),
               sent |-> (k.log # << >>),
               ok |-> (k.status = "done" /\ ~IsError(k.result))]

\* A caller starts an operation in slot c.
Begin(c, op, self, trash_folder, uid, args) ==
    [S EXCEPT !.call[c] = [IdleCall EXCEPT !.status = "running", !.op = op,
                                           !.self = self,
                                           !.trash_folder = trash_folder,
                                           !.uid = uid, !.args = args,
                                           !.memo0 = last_viewed_mailbox]]

Started(c) ==
    /\ started' = started + 1
    /\ UNCHANGED <<input, output>>
    /\ prev' = IF call[c].status = "idle" THEN prev ELSE Summary(call[c])

\* Calls are serialized: a caller starts the next one when the last has ended.
CanStart(c) == c = 1 /\ Finished(c) /\ started < MaxCalls

StartCount(c) ==
    /\ CanStart(c)
    /\ \E self \in Mailboxes :
          Apply(count(Begin(c, "count", self, NoMailbox, 0, NoArgs), c))
    /\ Started(c)

StartSelect(c) ==
    /\ CanStart(c)
    /\ \E self \in Mailboxes :
          Apply(select(Begin(c, "select", self, NoMailbox, 0, NoArgs), c))
    /\ Started(c)

StartDelete(c) ==
    /\ CanStart(c)
    /\ \E self \in Mailboxes :
          Apply(delete(Begin(c, "delete", self, NoMailbox, 0, NoArgs), c))
    /\ Started(c)

StartDeleteMessage(c) ==
    /\ CanStart(c)
    /\ \E self \in Mailboxes, trash_folder \in TrashFolders, uid \in 1..MaxUid :
          Apply(delete_message(Begin(c, "delete_message", self, trash_folder, uid,
                                     NoArgs), c))
    /\ Started(c)

StartSearch(c) ==
    /\ CanStart(c)
    /\ \E self \in Mailboxes, limit \in Limits, offset \in Offsets,
          f \in PlainFlags :
          Apply(search(Begin(c, "search", self, NoMailbox, 0,
                             [f EXCEPT !.limit = limit, !.offset = offset]), c))
    /\ Started(c)

StartMessages(c) ==
    /\ CanStart(c)
    /\ \E self \in Mailboxes, limit \in Limits, offset \in Offsets,
          f \in PlainFlags :
          Apply(messages(Begin(c, "messages", self, NoMailbox, 0,
                               [f EXCEPT !.limit = limit, !.offset = offset]), c))
    /\ Started(c)

StartFetchAll(c) ==
    /\ CanStart(c)
    /\ \E self \in Mailboxes, n \in 0..MaxIds,
          f \in PlainFlags :
          Apply(fetch_all(Begin(c, "fetch_all", self, NoMailbox, 0,
                                [f EXCEPT !.n = n]), c))
    /\ Started(c)

StartFetch(c) ==
    /\ CanStart(c)
    /\ \E self \in Mailboxes, uid \in 1..MaxUid,
          f \in PlainFlags :
          Apply(fetch(Begin(c, "fetch", self, NoMailbox, 0, f), c, uid))
    /\ Started(c)

StartFetchGmId(c) ==
    /\ CanStart(c)
    /\ \E self \in Mailboxes, f \in PlainFlags :
          Apply(fetch_gm_id(Begin(c, "fetch_gm_id", self, NoMailbox, 0, f), c))
    /\ Started(c)

StartMessagesById(c) ==
    /\ CanStart(c)
    /\ \E self \in Mailboxes, n \in 0..MaxIds,
          f \in UidFlags :
          Apply(messages_by_id(Begin(c, "messages_by_id", self, NoMailbox, 0,
                                     [f EXCEPT !.n = n]), c, [i \in 1..n |-> i]))
    /\ Started(c)

(***************************************************************************)
(* One action per response handler.                                        *)
(***************************************************************************)
Awaits(c, handler) == call[c].status = "running" /\ call[c].pending = handler

CountOnSelectComplete(c) ==
    /\ Awaits(c, "count._on_select_complete")
    /\ \E r \in SelectResponses : Apply(count_on_select_complete(Receive(S, c, r), c, r))
    /\ UNCHANGED <<prev, started, input, output>>

DeleteOnMailboxDeletion(c) ==
    /\ Awaits(c, "delete._on_mailbox_deletion")
    /\ \E r \in DeleteResponses : Apply(delete_on_mailbox_deletion(Receive(S, c, r), c, r))
    /\ UNCHANGED <<prev, started, input, output>>

DeleteMessageOnMessageMoved(c) ==
    /\ Awaits(c, "delete_message._on_message_moved")
    /\ \E r \in PlainResponses :
          Apply(delete_message_on_message_moved(Receive(S, c, r), c, r))
    /\ UNCHANGED <<prev, started, input, output>>

DeleteMessageOnTrashSelected(c) ==
    /\ Awaits(c, "delete_message._on_trash_selected")
    /\ \E r \in SelectResponses :
          Apply(delete_message_on_trash_selected(Receive(S, c, r), c, r))
    /\ UNCHANGED <<prev, started, input, output>>

DeleteMessageOnSearchForMessageComplete(c) ==
    /\ Awaits(c, "delete_message._on_search_for_message_complete")
    /\ \E r \in UidSearchResponses :
          Apply(delete_message_on_search_for_message_complete(Receive(S, c, r), c, r))
    /\ UNCHANGED <<prev, started, input, output>>

\* The timer of _cmd_in fires: _on_trash_selected runs again and re-searches.
DeleteMessageRetry(c) ==
    /\ Awaits(c, "wait")
    /\ WireIdle
    /\ Apply(delete_message_on_received_connection_3(
                 [S EXCEPT !.call[c].pending = "none"], c))
    /\ UNCHANGED <<prev, started, input, output>>

DeleteMessageOnDeleteComplete(c) ==
    /\ Awaits(c, "delete_message._on_delete_complete")
    /\ \E r \in PlainResponses :
          Apply(delete_message_on_delete_complete(Receive(S, c, r), c, r))
    /\ UNCHANGED <<prev, started, input, output>>

DeleteMessageOnExpungeComplete(c) ==
    /\ Awaits(c, "delete_message._on_expunge_complete")
    /\ \E r \in PlainResponses :
          Apply(delete_message_on_expunge_complete(Receive(S, c, r), c, r))
    /\ UNCHANGED <<prev, started, input, output>>

DeleteMessageOnOriginalMailboxReselected(c) ==
    /\ Awaits(c, "delete_message._on_original_mailbox_reselected")
    /\ \E r \in SelectResponses :
          Apply(delete_message_on_original_mailbox_reselected(Receive(S, c, r), c, r))
    /\ UNCHANGED <<prev, started, input, output>>

SearchOnSearch(c) ==
    /\ Awaits(c, "search._on_search")
    /\ \E r \in SearchResponses : Apply(search_on_search(Receive(S, c, r), c, r))
    /\ UNCHANGED <<prev, started, input, output>>

MessagesOnSearch(c) ==
    /\ Awaits(c, "messages._on_search")
    /\ \E r \in SearchResponses : Apply(messages_on_search(Receive(S, c, r), c, r))
    /\ UNCHANGED <<prev, started, input, output>>

MessagesByIdOnFetch(c) ==
    /\ Awaits(c, "messages_by_id._on_fetch")
    /\ \E r \in FetchResponses : Apply(messages_by_id_on_fetch(Receive(S, c, r), c, r))
    /\ UNCHANGED <<prev, started, input, output>>

FetchAllOnFetch(c) ==
    /\ Awaits(c, "fetch_all._on_fetch")
    /\ \E r \in FetchResponses : Apply(fetch_all_on_fetch(Receive(S, c, r), c, r))
    /\ UNCHANGED <<prev, started, input, output>>

FetchOnFetch(c) ==
    /\ Awaits(c, "fetch._on_fetch")
    /\ \E r \in FetchResponses : Apply(fetch_on_fetch(Receive(S, c, r), c, r))
    /\ UNCHANGED <<prev, started, input, output>>

FetchGmIdOnSearchComplete(c) ==
    /\ Awaits(c, "fetch_gm_id._on_search_complete")
    /\ \E r \in UidSearchResponses :
          Apply(fetch_gm_id_on_search_complete(Receive(S, c, r), c, r))
    /\ UNCHANGED <<prev, started, input, output>>

\* The connection is lost (or the session is no longer authenticated) ...
ConnectionDrops ==
    /\ connection = "ok"
    /\ connection' = "error"
    /\ UNCHANGED <<last_viewed_mailbox, selected, num_tries, call, prev, started,
                   input, output>>

\* ... and is set up again.
ConnectionRecovers ==
    /\ connection = "error"
    /\ connection' = "ok"
    /\ UNCHANGED <<last_viewed_mailbox, selected, num_tries, call, prev, started,
                   input, output>>

\* the account and its Mailbox objects before any operation
InitMailbox ==
    /\ last_viewed_mailbox = NoMailbox
    /\ selected = NoMailbox
    /\ connection = "ok"
    /\ num_tries = [m \in Mailboxes |-> Unset]
    /\ call = [c \in Calls |-> IdleCall]
    /\ prev = NoPrev
    /\ started = 0

Init ==
    /\ InitMailbox
    /\ input = NoInput
    /\ output = NotReturned

Next ==
    \/ ConnectionDrops
    \/ ConnectionRecovers
    \/ \E c \in Calls :
        \/ StartCount(c)
        \/ StartSelect(c)
        \/ StartDelete(c)
        \/ StartDeleteMessage(c)
        \/ StartSearch(c)
        \/ StartMessages(c)
        \/ StartFetchAll(c)
        \/ StartFetch(c)
        \/ StartFetchGmId(c)
        \/ StartMessagesById(c)
        \/ CountOnSelectComplete(c)
        \/ DeleteOnMailboxDeletion(c)
        \/ DeleteMessageOnMessageMoved(c)
        \/ DeleteMessageOnTrashSelected(c)
        \/ DeleteMessageOnSearchForMessageComplete(c)
        \/ DeleteMessageRetry(c)
        \/ DeleteMessageOnDeleteComplete(c)
        \/ DeleteMessageOnExpungeComplete(c)
        \/ DeleteMessageOnOriginalMailboxReselected(c)
        \/ SearchOnSearch(c)
        \/ MessagesOnSearch(c)
        \/ MessagesByIdOnFetch(c)
        \/ FetchAllOnFetch(c)
        \/ FetchOnFetch(c)
        \/ FetchGmIdOnSearchComplete(c)

Spec == Init /\ [][Next]_vars

(***************************************************************************)
(* Two delete_message calls on one Mailbox object, the second started      *)
(* while the first sleeps between two attempts.  Nothing is on the wire    *)
(* when a call starts or a timer fires, so the commands stay serialized.   *)
(***************************************************************************)
InterleavedMailbox == "A"

CanStartInterleaved(c) == Finished(c) /\ WireIdle /\ started < MaxCalls

StartDeleteMessageInterleaved(c) ==
    /\ CanStartInterleaved(c)
    /\ \E trash_folder \in TrashFolders, uid \in 1..MaxUid :
          Apply(delete_message(Begin(c, "delete_message", InterleavedMailbox,
                                     trash_folder, uid, NoArgs), c))
    /\ Started(c)

NextInterleaved ==
    \E c \in Calls :
        \/ StartDeleteMessageInterleaved(c)
        \/ CountOnSelectComplete(c)
        \/ DeleteMessageOnMessageMoved(c)
        \/ DeleteMessageOnTrashSelected(c)
        \/ DeleteMessageOnSearchForMessageComplete(c)
        \/ DeleteMessageRetry(c)
        \/ DeleteMessageOnDeleteComplete(c)
        \/ DeleteMessageOnExpungeComplete(c)
        \/ DeleteMessageOnOriginalMailboxReselected(c)

SpecInterleaved == Init /\ [][NextInterleaved]_vars

\* The connection answers every command and every scheduled wait fires: a call that
\* waits for an answer or for its timer gets it.
Answered(c) ==
    \/ CountOnSelectComplete(c)
    \/ DeleteMessageOnMessageMoved(c)
    \/ DeleteMessageOnTrashSelected(c)
    \/ DeleteMessageOnSearchForMessageComplete(c)
    \/ DeleteMessageRetry(c)
    \/ DeleteMessageOnDeleteComplete(c)
    \/ DeleteMessageOnExpungeComplete(c)
    \/ DeleteMessageOnOriginalMailboxReselected(c)

SpecInterleavedAnswered == SpecInterleaved /\ \A c \in Calls : WF_vars(Answered(c))

(***************************************************************************)
(* One operation that reads messages, called with every combination of its *)
(* options and every page, on an account whose active mailbox is any of    *)
(* the mailboxes or none yet.                                              *)
(***************************************************************************)
ReaderFlags == Flags(BOOLEAN, BOOLEAN, BOOLEAN, BOOLEAN)
ReaderLimits == {NoLimit, NoneLimit} \cup 1..MaxIds
ReaderOffsets == 0..MaxIds

InitReaders ==
    /\ last_viewed_mailbox \in {NoMailbox} \cup Mailboxes
    /\ selected = last_viewed_mailbox
    /\ connection = "ok"
    /\ num_tries = [m \in Mailboxes |-> Unset]
    /\ call = [c \in Calls |-> IdleCall]
    /\ prev = NoPrev
    /\ started = 0
    /\ input = NoInput
    /\ output = NotReturned

CanCall(c) == c = 1 /\ call[c].status = "idle"

CallSearch(c) ==
    /\ CanCall(c)
    /\ \E self \in Mailboxes, limit \in ReaderLimits, offset \in ReaderOffsets,
          f \in ReaderFlags :
          Apply(search(Begin(c, "search", self, NoMailbox, 0,
                             [f EXCEPT !.limit = limit, !.offset = offset]), c))
    /\ Started(c)

CallMessages(c) ==
    /\ CanCall(c)
    /\ \E self \in Mailboxes, limit \in ReaderLimits, offset \in ReaderOffsets,
          f \in ReaderFlags :
          Apply(messages(Begin(c, "messages", self, NoMailbox, 0,
                               [f EXCEPT !.limit = limit, !.offset = offset]), c))
    /\ Started(c)

CallFetchAll(c) ==
    /\ CanCall(c)
    /\ \E self \in Mailboxes, n \in 0..MaxIds, f \in ReaderFlags :
          Apply(fetch_all(Begin(c, "fetch_all", self, NoMailbox, 0,
                                [f EXCEPT !.n = n]), c))
    /\ Started(c)

CallFetch(c) ==
    /\ CanCall(c)
    /\ \E self \in Mailboxes, uid \in 1..MaxUid, f \in ReaderFlags :
          Apply(fetch(Begin(c, "fetch", self, NoMailbox, 0, f), c, uid))
    /\ Started(c)

CallMessagesById(c) ==
    /\ CanCall(c)
    /\ \E self \in Mailboxes, n \in 0..MaxIds, f \in ReaderFlags :
          Apply(messages_by_id(Begin(c, "messages_by_id", self, NoMailbox, 0,
                                     [f EXCEPT !.n = n]), c, [i \in 1..n |-> i]))
    /\ Started(c)

NextReaders ==
    \/ ConnectionDrops
    \/ ConnectionRecovers
    \/ \E c \in Calls :
        \/ CallSearch(c)
        \/ CallMessages(c)
        \/ CallFetchAll(c)
        \/ CallFetch(c)
        \/ CallMessagesById(c)
        \/ CountOnSelectComplete(c)
        \/ SearchOnSearch(c)
        \/ MessagesOnSearch(c)
        \/ MessagesByIdOnFetch(c)
        \/ FetchAllOnFetch(c)
        \/ FetchOnFetch(c)

SpecReaders == InitReaders /\ [][NextReaders]_vars

(***************************************************************************)
(* The functions of the module, called on their own: the arguments are     *)
(* drawn as the call is made, the one step is the call returning.          *)
(***************************************************************************)
Returned(v) == [status |-> "returned", value |-> v]
HasReturned == output.status = "returned"
MailboxUntouched ==
    UNCHANGED <<last_viewed_mailbox, selected, connection, num_tries, call, prev, started>>

Min(a, b) == IF a <= b THEN a ELSE b
Max(a, b) == IF a >= b THEN a ELSE b

\* page_from_list(a_list, limit, offset)
PageLists == UNION {[1..n -> 1..MaxLen] : n \in 0..MaxLen}
PageLimits == {NoLimit} \cup 0..(MaxLen + 1)
PageOffsets == 0..(MaxLen + 1)

InitPage ==
    /\ InitMailbox
    /\ input \in [fn : {"page_from_list"}, a_list : PageLists, limit : PageLimits,
                  offset : PageOffsets]
    /\ output = NotReturned

PageFromList ==
    /\ input.fn = "page_from_list" /\ ~HasReturned
    /\ output' = Returned(page_from_list(input.a_list, input.limit, input.offset))
    /\ UNCHANGED input
    /\ MailboxUntouched

NextPage == PageFromList

SpecPage == InitPage /\ [][NextPage]_vars

(***************************************************************************)
(* parse_fetch_request called on its own, with every combination of its    *)
(* flags, on raw responses put together from up to MaxGroups groups of     *)
(* parts: the groups a server sends for one message in each mode, and      *)
(* single parts of every shape, well-formed or not.                        *)
(***************************************************************************)
MessageNumbers == {"1", "2"}

\* what a server sends for one message
HeaderGroups == {<<HeaderTuple(m), StrPart(Close)>> : m \in MessageNumbers}
FullGroups == {<<TuplePart(<<MetaFull(m), FullText(m)>>), StrPart(Close)>> :
                  m \in MessageNumbers}
TeaserGroups ==
    { <<HeaderTuple("1"), TuplePart(<<BodyLead, BodyText("1")>>), StrPart(Close)>>,
      <<HeaderTuple("2"), StrPart(NilLine)>>,
      <<TuplePart(<<MetaHeader("1"), HeaderBlock("1"), NilLine>>)>> }
GmIdGroups == { <<StrPart(GmLine(<<"1">>, <<"7">>))>>,
                <<StrPart(GmLine(<<"1", "2">>, <<"3", "4">>))>> }

\* parts of other shapes
OddParts ==
    { StrPart(Close), StrPart(<< >>), TuplePart(<< >>),
      StrPart(<<"x">> \o GmLine(<<"1">>, <<"7">>)),
      StrPart(<<"1", " ", "(", "UID", " ", "7", ")">>),
      TuplePart(<<NilLine>>),
      TuplePart(<<NilLine, BodyText("2")>>),
      TuplePart(<<BodyLead, BodyText("2")>>),
      HeaderTuple("2") }

Groups == HeaderGroups \cup FullGroups \cup TeaserGroups \cup GmIdGroups
              \cup {<<part>> : part \in OddParts}

RECURSIVE Concatenations(_)
Concatenations(n) ==
    IF n = 0 THEN {<< >>}
    ELSE LET shorter == Concatenations(n - 1)
         IN  shorter \cup {parts \o group : parts \in shorter, group \in Groups}

RawResponses == {NoResponse} \cup {Response(parts) : parts \in Concatenations(MaxGroups)}

Parsing(d) ==
    [status |-> CASE d.pc = "return" -> "returned"
                  [] d.pc = "raised" -> "raised"
                  [] OTHER -> "running",
     value |-> d.messages, d |-> d]

InitParse ==
    /\ InitMailbox
    /\ input \in [fn : {"parse_fetch_request"}, response : RawResponses,
                  teaser : BOOLEAN, full : BOOLEAN, gm_id : BOOLEAN]
    /\ output = Parsing(NewParse)

IsParsing == input.fn = "parse_fetch_request" /\ output.status = "running"
Branch == parse_branch(input.teaser, input.full, input.gm_id)
AtPart == /\ IsParsing /\ output.d.pc = "part"
          /\ output.d.i <= Len(input.response.parts)
Part == input.response.parts[output.d.i]

ParseTo(d) ==
    /\ output' = Parsing(d)
    /\ UNCHANGED input
    /\ MailboxUntouched

ParseEnter == IsParsing /\ output.d.pc = "enter" /\ ParseTo(parse_enter(output.d, input.response))

ParseDone ==
    /\ IsParsing /\ output.d.pc = "part" /\ output.d.i > Len(input.response.parts)
    /\ ParseTo(parse_done(output.d))

ParseGmIdPart == AtPart /\ Branch = "gm_id" /\ ParseTo(gm_id_part(output.d, Part))

ParseTeaserPart == AtPart /\ Branch = "teaser" /\ ParseTo(teaser_part(output.d, Part))

ParseTeaserSubPart ==
    IsParsing /\ output.d.pc = "sub_part" /\ ParseTo(teaser_sub_part(output.d, Part))

ParseTeaserPartEnd ==
    IsParsing /\ output.d.pc = "part_end" /\ ParseTo(teaser_part_end(output.d))

ParseFullPart == AtPart /\ Branch = "body" /\ ParseTo(full_part(output.d, Part))

ParseHeadersPart == AtPart /\ Branch = "header" /\ ParseTo(headers_part(output.d, Part))

NextParse ==
    \/ ParseEnter
    \/ ParseDone
    \/ ParseGmIdPart
    \/ ParseTeaserPart
    \/ ParseTeaserSubPart
    \/ ParseTeaserPartEnd
    \/ ParseFullPart
    \/ ParseHeadersPart

SpecParse == InitParse /\ [][NextParse]_vars

(***************************************************************************)
(* What the properties below read off a call.                              *)
(***************************************************************************)
Log(c) == call[c].log
Entries(c) == 1..Len(call[c].log)
Result(c) == call[c].result
Done(c) == call[c].status = "done"
IsDeleteMessage(c) == call[c].status # "idle" /\ call[c].op = "delete_message"
IsReader(c) == call[c].status # "idle" /\ call[c].op \in Readers

\* header-id searches of a delete_message call that were answered "no match"
FailedSearches(c) ==
    Cardinality({i \in Entries(c) : /\ Log(c)[i].cmd = "UID SEARCH"
                                    /\ Log(c)[i].status = "OK"
                                    /\ Log(c)[i].data = 0})
Searches(c) == NCmd(Log(c), "UID SEARCH")

(***************************************************************************)
(* C1: two consecutive operations on the same Mailbox (any two of count,   *)
(* search, messages, fetch, fetch_all, fetch_gm_id, messages_by_id), each  *)
(* sending at least one command and delivering a result that is no error,  *)
(* issue exactly one SELECT command in total.                              *)
(***************************************************************************)
C1_ExactlyOneSelect ==
    \A c \in Calls :
        ( /\ Done(c) /\ ~IsError(Result(c)) /\ Log(c) # << >>
          /\ Kind(call[c].op) \in {"count", "reader"}
          /\ prev.ok /\ prev.sent /\ prev.kind \in {"count", "reader"}
          /\ prev.self = call[c].self )
        => prev.nsel + NSelect(Log(c)) = 1

(***************************************************************************)
(* C1, as amended: two consecutive operations on the same Mailbox, both    *)
(* among search, messages, fetch, fetch_all, fetch_gm_id, messages_by_id,  *)
(* issue at most one SELECT in total.  Such an operation issues no SELECT  *)
(* when its mailbox is the remembered active one as it starts, and exactly *)
(* one when it is not and the operation gets to deliver a result that is   *)
(* no error after sending a command; count issues exactly one SELECT in    *)
(* every call that delivers a count.                                       *)
(***************************************************************************)
C1_SelectOnMemoMismatch ==
    \A c \in Calls :
        /\ ( /\ IsReader(c) /\ Done(c)
             /\ prev.kind = "reader" /\ prev.self = call[c].self )
           => prev.nsel + NSelect(Log(c)) <= 1
        /\ (IsReader(c) /\ call[c].memo0 = call[c].self) => NSelect(Log(c)) = 0
        /\ ( /\ IsReader(c) /\ call[c].memo0 # call[c].self
             /\ Done(c) /\ ~IsError(Result(c)) /\ Log(c) # << >> )
           => NSelect(Log(c)) = 1
        /\ (call[c].op = "count" /\ Done(c) /\ ~IsError(Result(c)))
           => NSelect(Log(c)) = 1

\* a reader on a mailbox that was not active, then a second reader on the same
\* mailbox: one SELECT by the first, none by the second
C1_Witness ==
    \E c \in Calls :
        /\ IsReader(c) /\ Done(c) /\ ~IsError(Result(c)) /\ Log(c) # << >>
        /\ prev.kind = "reader" /\ prev.ok /\ prev.self = call[c].self
        /\ prev.nsel = 1 /\ NSelect(Log(c)) = 0

(***************************************************************************)
(* C2: whenever a command other than SELECT (SEARCH, FETCH, UID FETCH,     *)
(* UID SEARCH, UID COPY, UID STORE, EXPUNGE) is issued on behalf of a      *)
(* target mailbox, that mailbox is the one selected on the connection at   *)
(* that moment.                                                            *)
(***************************************************************************)
NeedsSelected == {"SEARCH", "FETCH", "UID FETCH", "UID SEARCH", "UID COPY",
                  "UID STORE", "EXPUNGE"}

C2_TargetIsSelected ==
    \A c \in Calls : \A i \in Entries(c) :
        Log(c)[i].cmd \in NeedsSelected => Log(c)[i].sel = Log(c)[i].target

(***************************************************************************)
(* C3: a delete_message call issues its commands in the order SELECT (if   *)
(* the source is not active), UID COPY, SELECT, UID SEARCH (one or more),  *)
(* UID STORE, EXPUNGE, SELECT, and then delivers True; a command is issued *)
(* only after every earlier command was answered OK; UID STORE carries the *)
(* UID the last search returned.                                           *)
(***************************************************************************)
\* the position of a command in the protocol of delete_message
Step(e, afterCopy) ==
    CASE e.cmd = "SELECT" /\ ~afterCopy -> 1
      [] e.cmd = "UID COPY" -> 2
      [] e.cmd = "UID SEARCH" -> 4
      [] e.cmd = "UID STORE" -> 5
      [] e.cmd = "EXPUNGE" -> 6
      [] OTHER -> 0     \* a SELECT after the copy: step 3 or step 7

C3_StrictOrder ==
    \A c \in Calls : IsDeleteMessage(c) =>
        LET log == Log(c)
            copy == {i \in Entries(c) : log[i].cmd = "UID COPY"}
            st(i) == LET x == Step(log[i], \E j \in copy : j < i)
                     IN  IF x # 0 THEN x
                         ELSE IF log[i - 1].cmd = "UID COPY" THEN 3 ELSE 7
        IN  /\ \A i \in Entries(c) : i > 1 =>
                  /\ log[i - 1].status = "OK"
                  /\ \/ st(i) = st(i - 1) + 1
                     \/ st(i) = 4 /\ st(i - 1) = 4 /\ log[i - 1].data = 0
                  /\ st(i) = 5 => (log[i - 1].data # 0 /\ log[i].n = log[i - 1].data)
            /\ log # << >> => st(1) \in {1, 2}
            /\ (Done(c) /\ Result(c) = True) =>
                  (log # << >> /\ st(Len(log)) = 7 /\ log[Len(log)].status = "OK")

(***************************************************************************)
(* C4: a delete_message call waits once after each header-id search that   *)
(* found nothing, except the fifth: with no match on the first 4 attempts  *)
(* and a match on the 5th it goes on to UID STORE after exactly 5 searches *)
(* and 4 waits; with no match on 5 attempts it delivers False, and no      *)
(* further search, wait, UID STORE or EXPUNGE is issued.  False is         *)
(* delivered in no other case.                                             *)
(***************************************************************************)
C4_RetryBudget ==
    \A c \in Calls : IsDeleteMessage(c) =>
        LET f == FailedSearches(c)
            log == Log(c)
        IN  /\ f <= MaxTries /\ Searches(c) <= MaxTries
            /\ call[c].waits = (IF f = MaxTries THEN MaxTries - 1 ELSE f)
            /\ f = MaxTries =>
                  /\ Done(c) /\ Result(c) = False
                  /\ log[Len(log)].cmd = "UID SEARCH"
                  /\ NCmd(log, "UID STORE") = 0 /\ NCmd(log, "EXPUNGE") = 0
            /\ (Done(c) /\ Result(c) = False) => f = MaxTries
            /\ NCmd(log, "UID STORE") = 1 => Searches(c) = f + 1

\* four searches without a match, the fifth with one: the call succeeded
C4_Witness ==
    \E c \in Calls :
        /\ IsDeleteMessage(c) /\ Done(c) /\ Result(c) = True
        /\ FailedSearches(c) = MaxTries - 1 /\ Searches(c) = MaxTries
        /\ call[c].waits = MaxTries - 1

(***************************************************************************)
(* C5: in delete_message the SELECT issued after the COPY succeeded        *)
(* targets the label passed as trash_folder.                               *)
(***************************************************************************)
C5_TrashSelected ==
    \A c \in Calls : \A i \in Entries(c) :
        ( /\ IsDeleteMessage(c) /\ i > 1
          /\ Log(c)[i].cmd = "SELECT" /\ Log(c)[i - 1].cmd = "UID COPY" )
        => Log(c)[i].arg = call[c].trash_folder

(***************************************************************************)
(* C6: when delete_message delivers True, the last SELECT it issued        *)
(* targeted the mailbox it was called on, and that mailbox is the one      *)
(* selected on the connection.                                             *)
(***************************************************************************)
C6_SourceReselected ==
    \A c \in Calls :
        (IsDeleteMessage(c) /\ Done(c) /\ Result(c) = True)
        => /\ Log(c)[Len(Log(c))].cmd = "SELECT"
           /\ Log(c)[Len(Log(c))].arg = call[c].self
           /\ selected = call[c].self

(***************************************************************************)
(* C7: in every operation but delete (whose non-OK answers are expected),  *)
(* a command answered non-OK is the operation's last command, and the      *)
(* operation delivers an error value; the initial SELECT of                *)
(* ensure-selected is no exception.                                        *)
(***************************************************************************)
C7_ErrorAborts ==
    \A c \in Calls : \A i \in Entries(c) :
        (call[c].op # "delete" /\ Log(c)[i].status = "NO")
        => /\ i = Len(Log(c))
           /\ Done(c) /\ IsError(Result(c))

(***************************************************************************)
(* C8: ensure-selected records its mailbox as the active one only when a   *)
(* SELECT succeeded: while an operation that goes through Mailbox.select   *)
(* has had no SELECT answered OK, account.last_viewed_mailbox is what it   *)
(* was when the operation started.                                         *)
(***************************************************************************)
C8_MemoOnlyOnSuccess ==
    \A c \in Calls :
        ( /\ call[c].status # "idle"
          /\ call[c].op \in Readers \cup {"select"}
          /\ \A i \in Entries(c) :
                ~(Log(c)[i].cmd = "SELECT" /\ Log(c)[i].status = "OK") )
        => last_viewed_mailbox = call[c].memo0

(***************************************************************************)
(* C9: the attempt counter belongs to one delete_message call: also when   *)
(* two calls on the same Mailbox interleave, no call fails on a missing    *)
(* counter, each call delivers False exactly at its own 5th search         *)
(* without a match, and none searches more than 5 times.                   *)
(***************************************************************************)
C9_CounterPerCall ==
    \A c \in Calls : IsDeleteMessage(c) =>
        /\ call[c].status # "raised"
        /\ FailedSearches(c) <= MaxTries
        /\ (Done(c) /\ Result(c) = False) => FailedSearches(c) = MaxTries
        /\ FailedSearches(c) = MaxTries => (Done(c) /\ Result(c) = False)

(***************************************************************************)
(* C10: Mailbox.delete delivers True exactly when the first data element   *)
(* of the DELETE response is "Success" and False for every other response, *)
(* OK or not; it delivers an error only when the connection is in an       *)
(* error state, and then sends no DELETE.                                  *)
(***************************************************************************)
C10_DeleteBySuccessMarker ==
    \A c \in Calls : (call[c].op = "delete" /\ Done(c)) =>
        LET log == Log(c)
        IN  /\ Len(log) <= 1
            /\ log # << >> =>
                  /\ log[1].cmd = "DELETE"
                  /\ Result(c) = (IF log[1].text = "Success" THEN True ELSE False)
            /\ log = << >> <=> Result(c) = StateError

\* deleting a label the server does not know: a non-OK answer, False delivered
C10_Witness ==
    \E c \in Calls :
        /\ call[c].op = "delete" /\ Done(c) /\ Log(c) # << >>
        /\ Log(c)[1].status = "NO" /\ Log(c)[1].text # "Success"
        /\ Result(c) = False

(***************************************************************************)
(* C11: fetch_gm_id issues a UID SEARCH with the X-GM-MSGID criterion.  If *)
(* the search response holds no UID it delivers None and issues no FETCH;  *)
(* otherwise it hands the UID found to fetch, which issues exactly one UID *)
(* FETCH (none only when it finds the connection in an error state), and   *)
(* what fetch delivers is delivered unchanged.                             *)
(***************************************************************************)
IsFetchGmId(c) == call[c].status # "idle" /\ call[c].op = "fetch_gm_id"

\* the entries of a command in the log of a call
Cmds(c, cmd) == {i \in Entries(c) : Log(c)[i].cmd = cmd}

C11_FetchGmIdResolvesThenFetches ==
    \A c \in Calls : IsFetchGmId(c) =>
        LET log == Log(c)
            searches == Cmds(c, "UID SEARCH")
            fetches == Cmds(c, "UID FETCH")
        IN  /\ Cardinality(searches) <= 1 /\ Cardinality(fetches) <= 1
            /\ \A i \in Entries(c) : log[i].cmd \in {"SELECT", "UID SEARCH", "UID FETCH"}
            /\ \A i \in searches :
                  /\ log[i].arg = "X-GM-MSGID"
                  /\ \A j \in fetches : i < j
                  /\ (log[i].status = "OK" /\ log[i].data = 0) =>
                        (Done(c) /\ Result(c) = None /\ fetches = {})
                  /\ (log[i].status = "OK" /\ log[i].data # 0) =>
                        /\ call[c].uid = log[i].data
                        /\ fetches = {} => (Done(c) /\ Result(c) = StateError)
                        /\ \A j \in fetches :
                              /\ j = i + 1 /\ log[j].n = 1
                              /\ log[j].status = "sent" => ~Done(c)
                              /\ log[j].status = "NO" =>
                                    (Done(c) /\ Result(c) = ResponseError)
                              /\ (log[j].status = "OK" /\ log[j].data = 0) =>
                                    (Done(c) /\ Result(c) = None)
                              /\ (log[j].status = "OK" /\ log[j].data > 0) =>
                                    (Done(c) /\ Result(c).kind = "Message")
                  /\ log[i].status \in {"sent", "NO"} => fetches = {}
            /\ searches = {} => fetches = {}

\* the search found a UID, the one UID FETCH for it was answered, and the message
\* it returned was delivered
C11_Witness ==
    \E c \in Calls :
        /\ IsFetchGmId(c) /\ Done(c) /\ Result(c).kind = "Message"
        /\ Cardinality(Cmds(c, "UID SEARCH")) = 1
        /\ Cardinality(Cmds(c, "UID FETCH")) = 1
        /\ \E i \in Cmds(c, "UID SEARCH") : Log(c)[i].data = call[c].uid

(***************************************************************************)
(* C12: for every list ids, every offset >= 0 and every limit that is a    *)
(* non-negative integer, page_from_list(ids, limit, offset) is the         *)
(* contiguous sub-sequence ids[offset .. offset+limit) clamped to the      *)
(* list, of length min(limit, max(0, len(ids) - offset)); it is [] when    *)
(* offset >= len(ids); with limit False it is every element from offset    *)
(* on.                                                                     *)
(***************************************************************************)
C12_PageIsClampedSlice ==
    (input.fn = "page_from_list" /\ HasReturned) =>
        LET ids == input.a_list
            page == output.value
            rest == Max(0, Len(ids) - input.offset)
        IN  /\ Len(page) = (IF input.limit = NoLimit THEN rest
                            ELSE Min(input.limit, rest))
            /\ \A i \in 1..Len(page) : page[i] = ids[input.offset + i]
            /\ input.offset >= Len(ids) => page = << >>

\* a page that starts inside the list and is cut short by the end of the list
C12_Witness ==
    /\ input.fn = "page_from_list" /\ HasReturned
    /\ input.offset > 0 /\ input.limit # NoLimit
    /\ input.offset + input.limit > Len(input.a_list)
    /\ Len(output.value) > 1 /\ Len(output.value) < input.limit

(***************************************************************************)
(* C13: search and messages, given a limit that is a number or False,      *)
(* split the id list of the SEARCH response, page it with (limit, offset)  *)
(* and request exactly the ids of the page, in order, through one FETCH    *)
(* of messages_by_id; when the page is empty (no                           *)
(* ids, or an offset beyond the list) the continuation receives [] and     *)
(* neither a FETCH nor a further SELECT is issued.                         *)
(***************************************************************************)
IsPaged(c) ==
    /\ call[c].status # "idle" /\ call[c].op \in {"search", "messages"}
    /\ call[c].args.limit # NoneLimit

\* the ids 1 .. n of a SEARCH response, from offset on, at most limit of them
PageOf(n, limit, offset) ==
    LET last == IF limit = NoLimit THEN n ELSE Min(offset + limit, n)
    IN  [j \in 1..Max(0, last - offset) |-> offset + j]

IsParse == input.fn = "parse_fetch_request"
ParseEnded == IsParse /\ output.status \in {"returned", "raised"}
Parts == input.response.parts
Records == output.d.messages

\* N groups, each a nested part of two sub-parts followed by a terminal string
WellFormedPairs(parts) ==
    /\ Len(parts) % 2 = 0
    /\ \A k \in 1..Len(parts) :
          IF k % 2 = 1 THEN ~parts[k].str /\ Len(parts[k].subs) = 2
          ELSE parts[k].str

(***************************************************************************)
(* C14: header mode of parse_fetch_request: for a raw response of N        *)
(* well-formed groups, each a nested part with two sub-parts (metadata,    *)
(* header block) followed by one terminator part, the decoder returns      *)
(* exactly N header records in input order, record k carrying exactly the  *)
(* metadata and the header payload of group k.                             *)
(***************************************************************************)
C14_HeaderRecords ==
    ( /\ ParseEnded /\ Branch = "header"
      /\ ~input.response.none /\ WellFormedPairs(Parts) )
    => /\ output.status = "returned"
       /\ Len(output.value) * 2 = Len(Parts)
       /\ \A k \in 1..Len(output.value) :
             output.value[k] = MessageHeaders(Parts[2 * k - 1].subs[1],
                                              Parts[2 * k - 1].subs[2])

\* two groups with different payloads were decoded into two header records
C14_Witness ==
    /\ ParseEnded /\ Branch = "header"
    /\ ~input.response.none /\ WellFormedPairs(Parts)
    /\ Len(Parts) = 4 /\ Len(output.value) = 2
    /\ output.value[1].type = "MessageHeaders"
    /\ output.value[1] # output.value[2]

(***************************************************************************)
(* C15: full mode of parse_fetch_request: a raw response of one group      *)
(* (metadata, combined text) followed by one terminator yields exactly one *)
(* record whose header field and body field both equal the combined text   *)
(* and whose metadata is the group's metadata; N such groups yield N       *)
(* records in order.                                                       *)
(***************************************************************************)
C15_FullRecords ==
    ( /\ ParseEnded /\ Branch = "body"
      /\ ~input.response.none /\ WellFormedPairs(Parts) )
    => /\ output.status = "returned"
       /\ Len(output.value) * 2 = Len(Parts)
       /\ \A k \in 1..Len(output.value) :
             LET group == Parts[2 * k - 1]
             IN  /\ output.value[k].type = "Message"
                 /\ output.value[k].metadata = group.subs[1]
                 /\ output.value[k].headers = group.subs[2]
                 /\ output.value[k].body = group.subs[2]

\* one group and its terminator were decoded into one full record
C15_Witness ==
    /\ ParseEnded /\ Branch = "body"
    /\ ~input.response.none /\ WellFormedPairs(Parts)
    /\ Len(Parts) = 2 /\ Len(output.value) = 1
    /\ output.value[1].headers = output.value[1].body
    /\ output.value[1].body # output.value[1].metadata

(***************************************************************************)
(* C16: teaser mode of parse_fetch_request: a raw response in which the    *)
(* sub-part carrying the header-to-body boundary marker (BODY[1]) also     *)
(* carries the empty-body marker (BODY[1] NIL)) yields a teaser record     *)
(* whose body field is empty.  The decoder has read such a sub-part as the *)
(* boundary of the message when it ends a nested part with                 *)
(* message_complete set; the record it appends then is the message's.      *)
(***************************************************************************)
C16_NilMarkerYieldsEmptyBody ==
    [][ ( /\ IsParsing /\ Branch = "teaser"
          /\ output.d.pc = "part_end" /\ ~Part.str
          /\ output.d.message_complete )
        => /\ Len(output'.d.messages) = Len(output.d.messages) + 1
           /\ output'.d.messages[Len(output'.d.messages)].type = "MessageTeaser"
           /\ output'.d.messages[Len(output'.d.messages)].body = << >> ]_vars

(***************************************************************************)
(* C17: id-only mode of parse_fetch_request: for a raw response of         *)
(* terminal strings, some of the shape "<n> (X-GM-MSGID <id>)" and some    *)
(* not, the decoder returns exactly one identifier per matching part, that *)
(* part's <id>, in input order; the other parts neither produce a record   *)
(* nor stop the scan.                                                      *)
(***************************************************************************)
AllDigits(str) == str # << >> /\ \A k \in 1..Len(str) : str[k] \in Digits

\* where the <id> of a string of the shape "<n> (X-GM-MSGID <id>)" starts; 0 for
\* a string of another shape
IdStart(text) ==
    LET starts == {b \in 2..Len(text) :
                      \E a \in 1..(b - 1) :
                          /\ AllDigits(SubSeq(text, 1, a))
                          /\ AllDigits(SubSeq(text, b, Len(text) - 1))
                          /\ text = GmLine(SubSeq(text, 1, a),
                                           SubSeq(text, b, Len(text) - 1))}
    IN  IF starts = {} THEN 0 ELSE CHOOSE b \in starts : TRUE

C17_OneIdPerMatchingPart ==
    ( /\ ParseEnded /\ Branch = "gm_id" /\ ~input.response.none
      /\ \A k \in 1..Len(Parts) : Parts[k].str )
    => LET matching == {k \in 1..Len(Parts) : IdStart(Parts[k].text) # 0}
           rank(k) == Cardinality({m \in matching : m <= k})
       IN  /\ output.status = "returned"
           /\ Len(output.value) = Cardinality(matching)
           /\ \A k \in matching :
                 output.value[rank(k)] =
                     SubSeq(Parts[k].text, IdStart(Parts[k].text), Len(Parts[k].text) - 1)

(***************************************************************************)
(* C18: parse_fetch_request returns an empty sequence, without error, for  *)
(* an empty or missing raw response (the empty list or None) in every      *)
(* mode: id-only, headers, teaser, full.                                   *)
(***************************************************************************)
C18_EmptyResponseDecodesToNothing ==
    (ParseEnded /\ (input.response.none \/ Parts = << >>))
    => (output.status = "returned" /\ output.value = << >>)

\* None was handed to the teaser branch, and the call returned
C18_Witness ==
    /\ ParseEnded /\ input.response.none
    /\ Branch = "teaser"
    /\ output.status = "returned" /\ output.value = << >>


(***************************************************************************)
(* What the properties below read off a call that fetches messages.        *)
(***************************************************************************)
FetchesMessages(c) ==
    /\ call[c].status # "idle"
    /\ call[c].op \in {"search", "messages", "fetch", "fetch_all", "messages_by_id"}

\* the FETCH and UID FETCH commands of a call
FetchCmds(c) == Cmds(c, "FETCH") \cup Cmds(c, "UID FETCH")

\* the records a call delivered
Delivered(c) ==
    IF Done(c) /\ Result(c).kind \in {"List", "Message"} THEN Result(c).items
    ELSE << >>

(***************************************************************************)
(* C19: when search, messages, fetch, fetch_all or messages_by_id is       *)
(* given both the teaser and the full option (and neither gm_ids nor       *)
(* only_uids), teaser takes precedence: every FETCH the call sends asks    *)
(* for the teaser template, and the records it delivers are teaser         *)
(* records.                                                                *)
(***************************************************************************)
C19_TeaserTakesPrecedence ==
    \A c \in Calls :
        (/\ FetchesMessages(c)
         /\ call[c].args.teaser /\ call[c].args.full
         /\ ~call[c].args.gm_ids /\ ~call[c].args.only_uids) =>
            /\ \A i \in FetchCmds(c) : Log(c)[i].arg = "teaser"
            /\ \A k \in 1..Len(Delivered(c)) : Delivered(c)[k].type = "MessageTeaser"

(***************************************************************************)
(* C20: when messages_by_id, called directly or through search or          *)
(* messages, has only_uids set, whatever the other options are, its FETCH  *)
(* asks for the uid template, and once the FETCH is answered without       *)
(* error the call delivers the list of the UIDs of the response lines,     *)
(* one per line in order.                                                  *)
(***************************************************************************)
C20_OnlyUidsListsUids ==
    \A c \in Calls :
        (/\ call[c].status # "idle"
         /\ call[c].op \in {"search", "messages", "messages_by_id"}
         /\ call[c].args.only_uids) =>
            \A i \in Cmds(c, "FETCH") :
                /\ Log(c)[i].arg = "uid"
                /\ Log(c)[i].status = "OK" =>
                      /\ Done(c)
                      /\ Result(c) = ListOf([k \in 1..Log(c)[i].data |-> UidOfMessage(k)],
                                            "uid")


(***************************************************************************)
(* C21: messages called with limit=None returns every message from offset  *)
(* on: once its SEARCH is answered without error the call goes on with     *)
(* all the ids of the response after the first offset ones, and does not   *)
(* stop with an exception.                                                 *)
(***************************************************************************)
C21_LimitNoneReturnsEverything ==
    \A c \in Calls :
        (/\ call[c].status # "idle" /\ call[c].op = "messages"
         /\ call[c].args.limit = NoneLimit) =>
            \A i \in Cmds(c, "SEARCH") : Log(c)[i].status = "OK" =>
                /\ call[c].status # "raised"
                /\ call[c].ids = PageOf(Log(c)[i].data, NoLimit, call[c].args.offset)


(***************************************************************************)
(* What the properties below read off a teaser response.                   *)
(***************************************************************************)
IsTeaserParse == IsParse /\ Branch = "teaser"

\* the terminal strings of a response, and the k-th of them
Terminals(parts) == {e \in 1..Len(parts) : parts[e].str}
Terminal(parts, k) ==
    CHOOSE e \in Terminals(parts) :
        Cardinality({x \in Terminals(parts) : x <= e}) = k

\* the sub-parts of the nested parts from..to, in order
RECURSIVE SubPartsOf(_, _, _)
SubPartsOf(parts, from, to) ==
    IF from > to THEN << >>
    ELSE (IF parts[from].str THEN << >> ELSE parts[from].subs)
             \o SubPartsOf(parts, from + 1, to)

\* the sub-parts of the k-th group: the nested parts before the k-th terminal
GroupSubParts(parts, k) ==
    SubPartsOf(parts, IF k = 1 THEN 1 ELSE Terminal(parts, k - 1) + 1,
               Terminal(parts, k) - 1)

\* the strings from..to of a sequence of strings, joined
RECURSIVE Joined(_, _, _)
Joined(strs, from, to) ==
    IF from > to \/ from > Len(strs) THEN << >>
    ELSE strs[from] \o Joined(strs, from + 1, to)

\* the first string from index from on that contains the marker, Len + 1 if none
FirstWith(strs, from, marker) ==
    LET with == {x \in from..Len(strs) : Contains(strs[x], marker)}
    IN  IF with = {} THEN Len(strs) + 1
        ELSE CHOOSE x \in with : \A y \in with : x <= y

\* the record the three sections of a group make
TeaserOf(subs) ==
    LET h == FirstWith(subs, 1, HeaderMarker)
        b == FirstWith(subs, h + 1, BodyMarker)
    IN  MessageTeaser(Joined(subs, 1, h), Joined(subs, h + 1, b - 1),
                      Joined(subs, b + 1, Len(subs)))

\* groups of one or more nested parts, each closed by a bare terminal string, none
\* of them completed by the inline empty-body marker
WellFormedTeaser(parts) ==
    /\ parts # << >> /\ parts[Len(parts)].str
    /\ ~parts[1].str /\ parts[1].subs # << >>
    /\ \A k \in 2..Len(parts) : parts[k - 1].str => ~parts[k].str
    /\ \A k \in 1..Len(parts) : ~parts[k].str =>
          \A j \in 1..Len(parts[k].subs) : ~Contains(parts[k].subs[j], NilMarker)

(***************************************************************************)
(* C22: teaser mode is a three-state machine per message.  While a message *)
(* is decoded the header buffer is empty until the metadata section has    *)
(* ended and the body buffer is empty until the header section has ended;  *)
(* after a record is emitted on a terminal string all buffers and flags    *)
(* are reset.  For N well-formed groups, each closed by a bare terminal    *)
(* string, the decoder returns N records in order, and record k holds the  *)
(* sub-parts of group k and nothing else: in its metadata those up to and  *)
(* including the first one with BODY[HEADER], in its headers the following *)
(* ones until one holds BODY[1], in its body the ones after that.          *)
(***************************************************************************)
C22_TeaserThreeStates ==
    IsTeaserParse =>
        LET d == output.d
        IN  /\ ~d.end_metadata => (~d.end_header /\ d.header_section = << >>)
            /\ ~d.end_header => d.body_section = << >>
            /\ (d.pc = "part" /\ d.i > 1 /\ Parts[d.i - 1].str) =>
                  /\ ~d.end_metadata /\ ~d.end_header /\ ~d.message_complete
                  /\ d.metadata_section = << >> /\ d.header_section = << >>
                  /\ d.body_section = << >>
            /\ (output.status = "returned" /\ ~input.response.none
                    /\ WellFormedTeaser(Parts)) =>
                  /\ Len(Records) = Cardinality(Terminals(Parts))
                  /\ \A k \in 1..Len(Records) :
                        Records[k] = TeaserOf(GroupSubParts(Parts, k))

\* two groups of different messages, the first with header and body chunks, were
\* decoded into two records
C22_Witness ==
    /\ IsTeaserParse /\ output.status = "returned" /\ ~input.response.none
    /\ WellFormedTeaser(Parts)
    /\ Len(Records) = 2
    /\ Records[1].body # << >> /\ Records[1].headers # << >>
    /\ Records[2].metadata # Records[1].metadata


(***************************************************************************)
(* C23: every record parse_fetch_request emits in teaser mode carries a    *)
(* metadata block: no record has an empty metadata field, whatever the     *)
(* response, also when a terminal string follows a message completed by    *)
(* the inline empty-body marker or follows another terminal string.        *)
(***************************************************************************)
C23_NoRecordWithoutMetadata ==
    IsTeaserParse => \A k \in 1..Len(Records) : Records[k].metadata # << >>


(***************************************************************************)
(* C24: for every combination of gm_ids, only_uids, full and teaser, a     *)
(* call of fetch, fetch_all or messages_by_id that delivers what it parsed *)
(* parsed it on the path of the template it requested: id-only decoding    *)
(* for the gm_id template, positional extraction for the uid template,     *)
(* full decoding for the body template, teaser decoding for the teaser     *)
(* template, header decoding for the header template.                      *)
(***************************************************************************)
C24_ParsePathMatchesTemplate ==
    \A c \in Calls :
        (/\ call[c].status # "idle"
         /\ call[c].op \in {"fetch", "fetch_all", "messages_by_id"}
         /\ Done(c) /\ Result(c).kind \in {"List", "Message"}) =>
            \A i \in FetchCmds(c) : Log(c)[i].arg = Result(c).mode


(***************************************************************************)
(* C25: over any serialized sequence of operations, whenever no operation  *)
(* is in flight, account.last_viewed_mailbox names the mailbox that is     *)
(* selected on the connection; so also after delete_message delivered      *)
(* True, delivered False, or stopped with an error after the trash SELECT. *)
(***************************************************************************)
C25_MemoNamesSelectedMailbox ==
    (\A c \in Calls : Finished(c)) => last_viewed_mailbox = selected


(***************************************************************************)
(* C26: every call of delete_message eventually delivers a result to its   *)
(* continuation, whatever the server answers, provided every command is    *)
(* answered and every scheduled wait fires; before that it issues at most  *)
(* 5 header-id searches and at most 4 waits.                               *)
(***************************************************************************)
C26_DeleteMessageDelivers ==
    \A c \in Calls :
        /\ [](IsDeleteMessage(c) =>
                 (Searches(c) <= MaxTries /\ call[c].waits <= MaxTries - 1))
        /\ (IsDeleteMessage(c) ~> Done(c))


(***************************************************************************)
(* C27: every public operation invokes the continuation of its caller      *)
(* exactly once per call, on every path: never twice, and a call that has  *)
(* ended, with a result, an expected failure or an error, has invoked it   *)
(* once.                                                                   *)
(***************************************************************************)
C27_ContinuationExactlyOnce ==
    \A c \in Calls : call[c].status # "idle" =>
        /\ call[c].delivered <= 1
        /\ Finished(c) => call[c].delivered = 1
        /\ call[c].delivered = 1 => Done(c)

====
